---------------------------- MODULE Spec2Model ----------------------------
(***************************************************************************)
(* NDTP wire codec of synapse-python (synapse/utils/ndtp.pyx).             *)
(*                                                                         *)
(* Byte buffers (bytes / bytearray) are sequences of 0..255, 1-indexed:    *)
(* Python's data[i] is data[i+1] here.  Every function that can raise      *)
(* returns a record with ok = FALSE and err = the kind of the raise site.  *)
(***************************************************************************)
EXTENDS Integers, Sequences, FiniteSets, TLC

\* ------------------------------------------------------------------------
\* Python / C values
\* ------------------------------------------------------------------------

\* Python's None (no byte buffer, no payload, no header) as a value that is
\* comparable with sequences and is no byte sequence itself.
None == << -1 >>

\* A C int computed by a shift that overflows 32 bits has no defined value;
\* it is kept as this token, which is no integer.
Indeterminate == "indeterminate"

Raise(kind) == [ok |-> FALSE, err |-> kind]

Min(a, b) == IF a < b THEN a ELSE b

Pow2(n) == 2^n

\* a | b on n-bit unsigned operands
RECURSIVE BitOr(_, _, _)
BitOr(a, b, n) ==
  IF n = 0 THEN 0
  ELSE (IF a % 2 = 1 \/ b % 2 = 1 THEN 1 ELSE 0)
       + 2 * BitOr(a \div 2, b \div 2, n - 1)

\* a ^ b on n-bit unsigned operands
RECURSIVE BitXor(_, _, _)
BitXor(a, b, n) ==
  IF n = 0 THEN 0
  ELSE ((a + b) % 2) + 2 * BitXor(a \div 2, b \div 2, n - 1)

\* Python slice data[lo:hi] with 0 <= lo, clamped to the buffer
Slice(data, lo, hi) == SubSeq(data, lo + 1, Min(hi, Len(data)))

\* int.to_bytes(n, 'big') / struct.pack(">..") of an in-range unsigned value
RECURSIVE BigEndian(_, _)
BigEndian(value, n) ==
  IF n = 0 THEN <<>> ELSE Append(BigEndian(value \div 256, n - 1), value % 256)

\* struct.pack("<..") of an in-range unsigned value
RECURSIVE LittleEndian(_, _)
LittleEndian(value, n) ==
  IF n = 0 THEN <<>> ELSE <<value % 256>> \o LittleEndian(value \div 256, n - 1)

\* int.from_bytes(b, 'big')
RECURSIVE FromBigEndian(_)
FromBigEndian(b) ==
  IF b = <<>> THEN 0
  ELSE FromBigEndian(SubSeq(b, 1, Len(b) - 1)) * 256 + b[Len(b)]

\* struct.unpack("<..", b) of one unsigned field
RECURSIVE FromLittleEndian(_)
FromLittleEndian(b) ==
  IF b = <<>> THEN 0 ELSE b[1] + 256 * FromLittleEndian(Tail(b))

\* ------------------------------------------------------------------------
\* to_bytes  (ndtp.pyx 26-120)
\* ------------------------------------------------------------------------

\* the inner loop placing every run of bits at the low end of its byte,
\* whatever the bit offset
RECURSIVE ToBytesWrite_unaligned(_, _, _, _, _)
ToBytesWrite_unaligned(buffer, bit_offset, value_unsigned, bits_remaining, byteorder_is_little) ==
  IF bits_remaining <= 0
  THEN [buffer |-> buffer, bit_offset |-> bit_offset]
  ELSE LET byte_index == bit_offset \div 8
           bits_in_current_byte == Min(8 - (bit_offset % 8), bits_remaining)
           shift == bits_remaining - bits_in_current_byte
           bits_to_write == (value_unsigned \div Pow2(shift)) % Pow2(bits_in_current_byte)
       IN ToBytesWrite_unaligned([buffer EXCEPT ![byte_index + 1] = BitOr(@, bits_to_write, 8)],
                                 bit_offset + bits_in_current_byte, value_unsigned, shift,
                                 byteorder_is_little)

\* the inner `while bits_remaining > 0` loop for one value (lines 92-113)
RECURSIVE ToBytesWrite(_, _, _, _, _)
ToBytesWrite(buffer, bit_offset, value_unsigned, bits_remaining, byteorder_is_little) ==
  IF bits_remaining <= 0
  THEN [buffer |-> buffer, bit_offset |-> bit_offset]
  ELSE LET byte_index == bit_offset \div 8
           bit_index == bit_offset % 8
           bits_in_current_byte == Min(8 - bit_index, bits_remaining)
           shift == bits_remaining - bits_in_current_byte
           bits_to_write == (value_unsigned \div Pow2(shift)) % Pow2(bits_in_current_byte)
           aligned == IF byteorder_is_little
                      THEN (bits_to_write * Pow2(bit_index)) % 256
                      ELSE (bits_to_write * Pow2(8 - bit_index - bits_in_current_byte)) % 256
       IN ToBytesWrite([buffer EXCEPT ![byte_index + 1] = BitOr(@, aligned, 8)],
                       bit_offset + bits_in_current_byte, value_unsigned, shift,
                       byteorder_is_little)

\* the range test of line 83
\* to_bytes with the upper limits one too high (max_value = 1 << bit_width)
ToBytesInRange_inclusive(value, is_signed, bit_width) ==
  IF is_signed
  THEN -Pow2(bit_width - 1) <= value /\ value <= Pow2(bit_width - 1)
  ELSE 0 <= value /\ value <= Pow2(bit_width)

ToBytesInRange(value, is_signed, bit_width) ==
  LET min_value == IF is_signed THEN -Pow2(bit_width - 1) ELSE 0
      max_value == IF is_signed THEN Pow2(bit_width - 1) - 1 ELSE Pow2(bit_width) - 1
  IN min_value <= value /\ value <= max_value

\* the `for py_value in values` loop (lines 81-113); `existing` in a failing
\* result is the caller's buffer as the raise leaves it
RECURSIVE ToBytesLoop(_, _, _, _, _, _, _)
ToBytesLoop(values, i, buffer, bit_offset, is_signed, bit_width, byteorder_is_little) ==
  IF i > Len(values)
  THEN [ok |-> TRUE, err |-> "", buffer |-> buffer, bit_offset |-> bit_offset]
  ELSE LET value == values[i]
       IN IF ~ToBytesInRange(value, is_signed, bit_width)
          THEN [ok |-> FALSE, err |-> "ValueOutOfRange", existing |-> buffer]
          ELSE LET value_unsigned == IF is_signed /\ value < 0
                                     THEN Pow2(bit_width) + value
                                     ELSE value
                   w == ToBytesWrite(buffer, bit_offset, value_unsigned, bit_width,
                                     byteorder_is_little)
               IN ToBytesLoop(values, i + 1, w.buffer, w.bit_offset, is_signed,
                              bit_width, byteorder_is_little)

\* to_bytes(values, is_signed, bit_width, existing, writing_bit_offset, byteorder)
\* for bit_width >= 1.  Result: buffer, final_bit_offset, and `existing`, the
\* caller's buffer object after the call (it is extended and written in place).
ToBytes(values, is_signed, bit_width, existing, writing_bit_offset, byteorder) ==
  LET num_bits_to_write == Len(values) * bit_width
      buffer0 == IF existing = None THEN <<>> ELSE existing
      buffer_length == Len(buffer0)
      bit_offset == IF existing = None THEN 0
                    ELSE IF buffer_length > 0
                         THEN (buffer_length - 1) * 8 + writing_bit_offset
                         ELSE 0
      total_bits_needed == bit_offset + num_bits_to_write
      total_bytes_needed == (total_bits_needed + 7) \div 8
      buffer1 == IF Len(buffer0) < total_bytes_needed
                 THEN buffer0 \o [k \in 1..(total_bytes_needed - Len(buffer0)) |-> 0]
                 ELSE buffer0
  IN IF byteorder \notin {"little", "big"}
     THEN [ok |-> FALSE, err |-> "InvalidByteorder", existing |-> buffer1]
     ELSE LET r == ToBytesLoop(values, 1, buffer1, bit_offset, is_signed, bit_width,
                               byteorder = "little")
          IN IF ~r.ok THEN r
             ELSE LET final_bit_offset == r.bit_offset % 8
                  IN [ok |-> TRUE, err |-> "",
                      buffer |-> IF final_bit_offset = 0 /\ total_bytes_needed < Len(r.buffer)
                                 THEN Slice(r.buffer, 0, total_bytes_needed)
                                 ELSE r.buffer,
                      final_bit_offset |-> final_bit_offset,
                      existing |-> r.buffer]

\* ------------------------------------------------------------------------
\* to_ints  (ndtp.pyx 125-239)
\* ------------------------------------------------------------------------

\* to_ints closing every value as an unsigned one
ToIntsValue_nosign(current_value, is_signed, bit_width) ==
  IF bit_width > 30 THEN Indeterminate ELSE current_value % Pow2(bit_width)

\* lines 181-190 / 204-213: close a complete value.  current_value, mask and
\* sign_bit are C ints: above 30 bits the shifts overflow.
ToIntsValue(current_value, is_signed, bit_width) ==
  IF bit_width > 30 THEN Indeterminate
  ELSE IF is_signed
       THEN IF (current_value \div Pow2(bit_width - 1)) % 2 = 1
            THEN current_value - Pow2(bit_width)
            ELSE current_value
       ELSE current_value % Pow2(bit_width)

\* The value accumulated from the n bits at reading positions p .. p+n-1
\* (lines 175-177 / 198-200).  Reading position q is bit 7 - q % 8 of byte
\* q \div 8 for 'big' (range(7 - start, -1, -1)) and bit q % 8 for 'little'
\* (range(start, 8)); 'big' shifts the value left and ors the bit in, 'little'
\* ors the bit in at the position of its arrival.
RECURSIVE ToIntsBits(_, _, _, _)
ToIntsBits(data, p, n, byteorder) ==
  IF n = 0 THEN 0
  ELSE LET q == p + n - 1
           byte == data[(q \div 8) + 1]
           bit_index == IF byteorder = "little" THEN q % 8 ELSE 7 - (q % 8)
           bit == (byte \div Pow2(bit_index)) % 2
       IN IF byteorder = "little"
          THEN ToIntsBits(data, p, n - 1, byteorder) + bit * Pow2(n - 1)
          ELSE ToIntsBits(data, p, n - 1, byteorder) * 2 + bit

\* to_ints treating pending bits alike with and without a count: they are
\* dropped
ToInts_dropleftover(data, is_signed, bit_width, count, start_bit, byteorder) ==
  IF bit_width <= 0 THEN Raise("InvalidBitWidth")
  ELSE
  LET start == start_bit % 8
      rest == Slice(data, start_bit \div 8, Len(data))
      available == IF Len(rest) = 0 THEN 0 ELSE Len(rest) * 8 - start
      complete == available \div bit_width
      early == count > 0 /\ complete >= count
      value_index == IF early THEN count ELSE complete
  IN IF count > 0 /\ Len(rest) < (bit_width * count + 7) \div 8
     THEN Raise("InsufficientData")
     ELSE IF Len(rest) > 0 /\ byteorder \notin {"little", "big"}
     THEN Raise("InvalidByteorder")
     ELSE [ok |-> TRUE, err |-> "",
           values |-> [k \in 1..value_index |->
                         ToIntsValue(ToIntsBits(rest, start + (k - 1) * bit_width,
                                                bit_width, byteorder),
                                     is_signed, bit_width)],
           end_bit |-> start + (IF early THEN count * bit_width ELSE available),
           data |-> rest]

\* to_ints(data, is_signed, bit_width, count, start_bit, byteorder), for
\* bit_width * count below 2^31.  Result: values, end_bit, data (the input
\* after the whole bytes of start_bit were dropped).
\* The loops of lines 170-217 read the bits from position start on, close a
\* value every bit_width bits and return early at the count-th value; when
\* they run off the data, `complete` values were closed and
\* bits_in_current_value bits are pending (lines 222-239).
ToInts(data, is_signed, bit_width, count, start_bit, byteorder) ==
  IF bit_width <= 0 THEN Raise("InvalidBitWidth")
  ELSE
  LET truncate_bytes == start_bit \div 8
      start == start_bit % 8
      rest == Slice(data, truncate_bytes, Len(data))
      data_len == Len(rest)
      available == IF data_len = 0 THEN 0 ELSE data_len * 8 - start
      complete == available \div bit_width
      early == count > 0 /\ complete >= count
      value_index == IF early THEN count ELSE complete
      total_bits_read == IF early THEN count * bit_width ELSE available
      bits_in_current_value == IF early THEN 0 ELSE available % bit_width
  IN IF count > 0 /\ data_len < (bit_width * count + 7) \div 8
     THEN Raise("InsufficientData")
     ELSE IF data_len > 0 /\ byteorder \notin {"little", "big"}
     THEN Raise("InvalidByteorder")
     ELSE IF bits_in_current_value > 0 /\ count = 0
     THEN Raise("LeftoverBits")
     ELSE [ok |-> TRUE, err |-> "",
           values |-> [k \in 1..value_index |->
                         IF bit_width > 30 THEN Indeterminate
                         ELSE ToIntsValue(
                                ToIntsBits(rest, start + (k - 1) * bit_width,
                                           bit_width, byteorder),
                                is_signed, bit_width)],
           end_bit |-> start + total_bits_read,
           data |-> rest]

\* ------------------------------------------------------------------------
\* Objects
\* ------------------------------------------------------------------------

\* ChannelData(channel_id, channel_data)  (lines 242-271)
ChannelData(channel_id, channel_data) ==
  [channel_id |-> channel_id, channel_data |-> channel_data]

\* NDTPPayloadBroadband(is_signed, bit_width, sample_rate, channels)  (274-284)
NDTPPayloadBroadband(is_signed, bit_width, sample_rate, channels) ==
  [kind |-> "Broadband", is_signed |-> is_signed, bit_width |-> bit_width,
   sample_rate |-> sample_rate, channels |-> channels]

\* NDTPPayloadSpiketrain(spike_counts)  (387-405)
NDTPPayloadSpiketrain(spike_counts) ==
  [kind |-> "Spiketrain", spike_counts |-> spike_counts]

\* payload=None of NDTPMessage.__init__  (510-512)
NoPayload == [kind |-> "None"]

\* NDTPHeader(data_type, timestamp, seq_number)  (456-466).  timestamp is a
\* non-negative long long, held as four base-65536 digits, least significant
\* first (64-bit values exceed the integers of the checker).
NDTPHeader(data_type, timestamp, seq_number) ==
  [data_type |-> data_type, timestamp |-> timestamp, seq_number |-> seq_number]

NDTP_VERSION == 1
NDTPPayloadSpiketrain_BIT_WIDTH == 2
DATA_TYPE_K_BROADBAND == 2
DATA_TYPE_K_SPIKETRAIN == 3

\* NDTPHeader_STRUCT.size for "<BIQH": no alignment, 1 + 4 + 8 + 2
NDTPHeader_STRUCT_size == 15

\* ------------------------------------------------------------------------
\* NDTPPayloadBroadband.pack / unpack  (ndtp.pyx 286-371)
\* ------------------------------------------------------------------------

\* the `for c in self.channels` loop (lines 302-313)
RECURSIVE BroadbandPackChannels(_, _, _, _, _)
BroadbandPackChannels(channels, i, payload, is_signed, bit_width) ==
  IF i > Len(channels) THEN [ok |-> TRUE, err |-> "", bytes |-> payload]
  ELSE LET c == channels[i]
       IN IF c.channel_id < 0 \/ c.channel_id >= Pow2(24) THEN Raise("OverflowError")
          ELSE IF Len(c.channel_data) > 65535 THEN Raise("StructError")
          ELSE LET t == ToBytes(c.channel_data, is_signed, bit_width, None, 0, "big")
               IN IF ~t.ok THEN Raise(t.err)
                  ELSE BroadbandPackChannels(channels, i + 1,
                         payload \o BigEndian(c.channel_id, 3)
                                 \o BigEndian(Len(c.channel_data), 2)
                                 \o t.buffer,
                         is_signed, bit_width)

BroadbandPack(self) ==
  LET n_channels == Len(self.channels)
      first == ((self.bit_width % 128) * 2) + (IF self.is_signed THEN 1 ELSE 0)
  IN IF n_channels >= Pow2(24) THEN Raise("OverflowError")
     ELSE IF self.sample_rate < 0 \/ self.sample_rate > 65535 THEN Raise("StructError")
     ELSE BroadbandPackChannels(self.channels, 1,
            <<first>> \o BigEndian(n_channels, 3) \o BigEndian(self.sample_rate, 2),
            self.is_signed, self.bit_width)

\* the channel loop stopping quietly where the buffer ends, keeping the
\* channels decoded so far
RECURSIVE BroadbandUnpackChannels_lenient(_, _, _, _, _, _)
BroadbandUnpackChannels_lenient(data, pos, remaining, channels, is_signed, bit_width) ==
  IF remaining = 0 \/ pos + 5 > Len(data)
  THEN [ok |-> TRUE, err |-> "", channels |-> channels]
  ELSE LET channel_id == FromBigEndian(Slice(data, pos, pos + 3))
           num_samples == FromBigEndian(Slice(data, pos + 3, pos + 5))
           bytes_needed == (num_samples * bit_width + 7) \div 8
           start == pos + 5
       IN IF start + bytes_needed > Len(data)
          THEN [ok |-> TRUE, err |-> "", channels |-> channels]
          ELSE LET t == ToInts(Slice(data, start, start + bytes_needed), is_signed,
                               bit_width, num_samples, 0, "big")
               IN IF ~t.ok THEN Raise(t.err)
                  ELSE BroadbandUnpackChannels_lenient(data, start + bytes_needed,
                         remaining - 1,
                         Append(channels, ChannelData(channel_id, t.values)),
                         is_signed, bit_width)

\* the `for _ in range(num_channels)` loop (lines 340-369)
RECURSIVE BroadbandUnpackChannels(_, _, _, _, _, _)
BroadbandUnpackChannels(data, pos, remaining, channels, is_signed, bit_width) ==
  IF remaining = 0 THEN [ok |-> TRUE, err |-> "", channels |-> channels]
  ELSE IF pos + 3 > Len(data) THEN Raise("InsufficientData")
  ELSE IF pos + 5 > Len(data) THEN Raise("InsufficientData")
  ELSE LET channel_id == FromBigEndian(Slice(data, pos, pos + 3))
           num_samples == FromBigEndian(Slice(data, pos + 3, pos + 5))
           total_bits == num_samples * bit_width
           bytes_needed == (total_bits + 7) \div 8
           start == pos + 5
       IN IF start + bytes_needed > Len(data) THEN Raise("InsufficientData")
          ELSE LET t == ToInts(Slice(data, start, start + bytes_needed), is_signed,
                               bit_width, num_samples, 0, "big")
               IN IF ~t.ok THEN Raise(t.err)
                  ELSE BroadbandUnpackChannels(data, start + bytes_needed, remaining - 1,
                         Append(channels, ChannelData(channel_id, t.values)),
                         is_signed, bit_width)

BroadbandUnpack(data) ==
  IF Len(data) < 6 THEN Raise("InsufficientData")
  ELSE LET bit_width == data[1] \div 2
           is_signed == (data[1] % 2) = 1
           num_channels == FromBigEndian(Slice(data, 1, 4))
           sample_rate == FromBigEndian(Slice(data, 4, 6))
           r == BroadbandUnpackChannels(data, 6, num_channels, <<>>, is_signed, bit_width)
       IN IF ~r.ok THEN r
          ELSE [ok |-> TRUE, err |-> "",
                payload |-> NDTPPayloadBroadband(is_signed, bit_width, sample_rate,
                                                 r.channels)]

\* ------------------------------------------------------------------------
\* NDTPPayloadSpiketrain.pack / unpack  (ndtp.pyx 407-445)
\* ------------------------------------------------------------------------

SpiketrainPack(self) ==
  LET t == ToBytes(self.spike_counts, FALSE, NDTPPayloadSpiketrain_BIT_WIDTH,
                   None, 0, "big")
  IN IF ~t.ok THEN Raise(t.err)
     ELSE [ok |-> TRUE, err |-> "",
           bytes |-> LittleEndian(Len(self.spike_counts), 4) \o t.buffer]

\* What a build does when `num_spikes * BIT_WIDTH` overflows the C int
\* bits_needed (line 434): the product wraps negative, both length checks
\* pass, and to_ints allocates num_spikes ints for an empty slice; the
\* allocation either fails or succeeds and no value is decoded.
OverflowOutcomes == {"MemoryError", "wrapped"}

\* NDTPPayloadSpiketrain.unpack taking a buffer shorter than the count field
\* as a payload of no spikes
SpiketrainUnpack_nominimum(data, outcome) ==
  IF Len(data) < 4 THEN [ok |-> TRUE, err |-> "", payload |-> NDTPPayloadSpiketrain(<<>>)]
  ELSE IF data[4] >= 128 THEN Raise("OverflowError")
  ELSE LET num_spikes == FromLittleEndian(Slice(data, 0, 4))
           payload == Slice(data, 4, Len(data))
       IN IF num_spikes >= Pow2(30)
          THEN IF outcome = "MemoryError" THEN Raise("MemoryError")
               ELSE [ok |-> TRUE, err |-> "", payload |-> NDTPPayloadSpiketrain(<<>>)]
          ELSE LET bits_needed == num_spikes * NDTPPayloadSpiketrain_BIT_WIDTH
                   bytes_needed == (bits_needed + 7) \div 8
               IN IF Len(payload) < bytes_needed THEN Raise("InsufficientData")
                  ELSE LET t == ToInts(Slice(payload, 0, bytes_needed), FALSE,
                                       NDTPPayloadSpiketrain_BIT_WIDTH, num_spikes,
                                       0, "big")
                       IN IF ~t.ok THEN Raise(t.err)
                          ELSE [ok |-> TRUE, err |-> "",
                                payload |-> NDTPPayloadSpiketrain(t.values)]

\* NDTPPayloadSpiketrain.unpack refusing bytes after the declared counts
SpiketrainUnpack_exact(data, outcome) ==
  IF Len(data) < 4 THEN Raise("InsufficientData")
  ELSE IF data[4] >= 128 THEN Raise("OverflowError")
  ELSE LET num_spikes == FromLittleEndian(Slice(data, 0, 4))
           payload == Slice(data, 4, Len(data))
       IN IF num_spikes >= Pow2(30)
          THEN IF outcome = "MemoryError" THEN Raise("MemoryError")
               ELSE [ok |-> TRUE, err |-> "", payload |-> NDTPPayloadSpiketrain(<<>>)]
          ELSE LET bits_needed == num_spikes * NDTPPayloadSpiketrain_BIT_WIDTH
                   bytes_needed == (bits_needed + 7) \div 8
               IN IF Len(payload) < bytes_needed THEN Raise("InsufficientData")
                  ELSE IF Len(payload) > bytes_needed THEN Raise("TrailingData")
                  ELSE LET t == ToInts(Slice(payload, 0, bytes_needed), FALSE,
                                       NDTPPayloadSpiketrain_BIT_WIDTH, num_spikes,
                                       0, "big")
                       IN IF ~t.ok THEN Raise(t.err)
                          ELSE [ok |-> TRUE, err |-> "",
                                payload |-> NDTPPayloadSpiketrain(t.values)]

SpiketrainUnpack(data, outcome) ==
  IF Len(data) < 4 THEN Raise("InsufficientData")
  ELSE IF data[4] >= 128 THEN Raise("OverflowError")
  ELSE LET num_spikes == FromLittleEndian(Slice(data, 0, 4))
           payload == Slice(data, 4, Len(data))
       IN IF num_spikes >= Pow2(30)
          THEN IF outcome = "MemoryError" THEN Raise("MemoryError")
               ELSE [ok |-> TRUE, err |-> "", payload |-> NDTPPayloadSpiketrain(<<>>)]
          ELSE LET bits_needed == num_spikes * NDTPPayloadSpiketrain_BIT_WIDTH
                   bytes_needed == (bits_needed + 7) \div 8
               IN IF Len(payload) < bytes_needed THEN Raise("InsufficientData")
                  ELSE LET t == ToInts(Slice(payload, 0, bytes_needed), FALSE,
                                       NDTPPayloadSpiketrain_BIT_WIDTH, num_spikes,
                                       0, "big")
                       IN IF ~t.ok THEN Raise(t.err)
                          ELSE [ok |-> TRUE, err |-> "",
                                payload |-> NDTPPayloadSpiketrain(t.values)]

\* ------------------------------------------------------------------------
\* NDTPHeader.pack / unpack  (ndtp.pyx 480-503)
\* ------------------------------------------------------------------------

\* the 8 bytes of format Q under "<" from the base-65536 digits
RECURSIVE PackQ(_)
PackQ(digits) ==
  IF digits = <<>> THEN <<>>
  ELSE LittleEndian(Head(digits), 2) \o PackQ(Tail(digits))

\* the base-65536 digits of the 8 bytes of format Q under "<"
RECURSIVE UnpackQ(_)
UnpackQ(b) ==
  IF b = <<>> THEN <<>>
  ELSE <<FromLittleEndian(SubSeq(b, 1, 2))>> \o UnpackQ(SubSeq(b, 3, Len(b)))

HeaderPack(self) ==
  IF self.data_type < 0 \/ self.seq_number < 0 \/ self.seq_number > 65535
  THEN Raise("StructError")
  ELSE [ok |-> TRUE, err |-> "",
        bytes |-> <<NDTP_VERSION>> \o LittleEndian(self.data_type, 4)
                  \o PackQ(self.timestamp) \o LittleEndian(self.seq_number, 2)]

\* NDTPHeader.unpack without the version comparison
HeaderUnpack_anyversion(data) ==
  IF Len(data) < NDTPHeader_STRUCT_size THEN Raise("InsufficientData")
  ELSE IF data[5] >= 128 \/ data[13] >= 128 THEN Raise("OverflowError")
  ELSE [ok |-> TRUE, err |-> "",
        header |-> NDTPHeader(FromLittleEndian(Slice(data, 1, 5)),
                              UnpackQ(Slice(data, 5, 13)),
                              FromLittleEndian(Slice(data, 13, 15)))]

\* NDTPHeader.unpack testing the length against the 8-byte timestamp only,
\* so that STRUCT.unpack meets the short buffers itself
HeaderUnpack_shortcheck(data) ==
  IF Len(data) < 8 THEN Raise("InsufficientData")
  ELSE IF Len(data) < NDTPHeader_STRUCT_size THEN Raise("StructError")
  ELSE IF data[1] # NDTP_VERSION THEN Raise("VersionMismatch")
  ELSE IF data[5] >= 128 \/ data[13] >= 128 THEN Raise("OverflowError")
  ELSE [ok |-> TRUE, err |-> "",
        header |-> NDTPHeader(FromLittleEndian(Slice(data, 1, 5)),
                              UnpackQ(Slice(data, 5, 13)),
                              FromLittleEndian(Slice(data, 13, 15)))]

\* the indices NDTPHeader.unpack reads from data: STRUCT.unpack reads the
\* expected_size bytes of its argument, and only after the length test
HeaderUnpackReads(data) ==
  IF Len(data) < NDTPHeader_STRUCT_size THEN {}
  ELSE 0..(NDTPHeader_STRUCT_size - 1)

HeaderUnpack(data) ==
  LET expected_size == NDTPHeader_STRUCT_size
  IN IF Len(data) < expected_size THEN Raise("InsufficientData")
     ELSE LET version == data[1]
          IN IF version # NDTP_VERSION THEN Raise("VersionMismatch")
             \* NDTPHeader(int data_type, long long timestamp, ...): the
             \* unsigned I and Q fields must fit the signed C types
             ELSE IF data[5] >= 128 \/ data[13] >= 128 THEN Raise("OverflowError")
             ELSE [ok |-> TRUE, err |-> "",
                   header |-> NDTPHeader(FromLittleEndian(Slice(data, 1, 5)),
                                         UnpackQ(Slice(data, 5, 13)),
                                         FromLittleEndian(Slice(data, 13, 15)))]

\* ------------------------------------------------------------------------
\* NDTPMessage  (ndtp.pyx 506-581)
\* ------------------------------------------------------------------------

\* The C int crc of crc16 is held as the set of the positions of its one
\* bits: ^ is the symmetric difference, << 1 followed by & 0xFFFF moves every
\* position below 15 up by one, & 0x8000 tests position 15.
Bits(x, n) == {k \in 0..(n - 1) : (x \div Pow2(k)) % 2 = 1}

RECURSIVE FromBits(_, _)
FromBits(S, n) ==
  IF n = 0 THEN 0
  ELSE FromBits(S, n - 1) + (IF (n - 1) \in S THEN Pow2(n - 1) ELSE 0)

XorBits(A, B) == (A \ B) \cup (B \ A)

\* the `for i in range(8)` loop of crc16 (lines 522-527)
RECURSIVE Crc16Shift(_, _, _)
Crc16Shift(crc, poly, i) ==
  IF i = 0 THEN crc
  ELSE LET shifted == {k + 1 : k \in crc \ {15}}
       IN Crc16Shift(IF 15 \in crc THEN XorBits(shifted, poly) ELSE shifted,
                     poly, i - 1)

\* the `for byte in data` loop of crc16 (lines 520-527): crc[n] is the
\* value of crc after the first n bytes
Crc16Loop(data, init, poly) ==
  LET crc[n \in 0..Len(data)] ==
        IF n = 0 THEN init
        ELSE [c \in SUBSET (0..15) |->
                Crc16Shift(XorBits(c, {k + 8 : k \in Bits(data[n], 8)}), poly, 8)
             ][crc[n - 1]]
  IN crc[Len(data)]

\* crc16 with a polynomial of no terms: the register only shifts
CRC16_POLY_none == Bits(0, 16)

\* poly=0x8005 and init=0xFFFF, the defaults of crc16 (line 515)
CRC16_POLY == Bits(32773, 16)
CRC16_INIT == Bits(65535, 16)

\* NDTPMessage.crc16(data)
Crc16(data) == FromBits(Crc16Loop(data, CRC16_INIT, CRC16_POLY), 16)

\* crc16_verify with its comparison dropped
Crc16Verify_unchecked(data, crc16) == Crc16(data) \in 0..65535

Crc16Verify(data, crc16) == Crc16(data) = crc16

\* self.header and self.payload after message.pack() with sequence numbers
\* advanced by pack
MessagePackSelf_advancing(header, payload) ==
  [header |-> [header EXCEPT !.seq_number = (@ + 1) % 65536], payload |-> payload]

\* self.header and self.payload after message.pack(): pack assigns no
\* attribute, header.pack() and payload.pack() build fresh bytearrays, and
\* to_bytes is called without `existing`
MessagePackSelf(header, payload) == [header |-> header, payload |-> payload]

\* the caller's buffer after NDTPMessage.unpack(data): a bytes argument is
\* copied, every part handed on is a slice (a copy), and the decoders only
\* read
MessageUnpackData(data) == data

\* pack calling self.payload.pack() whether or not there is a payload
PayloadPack_required(payload) ==
  IF payload.kind = "Broadband" THEN BroadbandPack(payload)
  ELSE IF payload.kind = "Spiketrain" THEN SpiketrainPack(payload)
  ELSE Raise("AttributeError")

\* line 539: self.payload.pack() if self.payload else bytearray()
PayloadPack(payload) ==
  IF payload.kind = "Broadband" THEN BroadbandPack(payload)
  ELSE IF payload.kind = "Spiketrain" THEN SpiketrainPack(payload)
  ELSE [ok |-> TRUE, err |-> "", bytes |-> <<>>]

MessagePack(header, payload) ==
  LET h == HeaderPack(header)
  IN IF ~h.ok THEN h
     ELSE LET p == PayloadPack(payload)
          IN IF ~p.ok THEN p
             ELSE LET message == h.bytes \o p.bytes
                  IN [ok |-> TRUE, err |-> "",
                      bytes |-> message \o LittleEndian(Crc16(message), 2)]

\* NDTPMessage.unpack handing every tag other than the Spiketrain tag to the
\* Broadband decoder
MessageUnpack_default(data, outcome) ==
  LET h == HeaderUnpack(Slice(data, 0, NDTPHeader_STRUCT_size))
  IN IF ~h.ok THEN h
     ELSE LET crc16_value == FromLittleEndian(Slice(data, Len(data) - 2, Len(data)))
              pbytes == Slice(data, NDTPHeader_STRUCT_size, Len(data) - 2)
              p == IF h.header.data_type = DATA_TYPE_K_SPIKETRAIN
                   THEN SpiketrainUnpack(pbytes, outcome)
                   ELSE BroadbandUnpack(pbytes)
          IN IF ~p.ok THEN p
             ELSE IF ~Crc16Verify(Slice(data, 0, Len(data) - 2), crc16_value)
                  THEN Raise("ChecksumError")
                  ELSE [ok |-> TRUE, err |-> "",
                        header |-> h.header, payload |-> p.payload]

MessageUnpack(data, outcome) ==
  LET header_size == NDTPHeader_STRUCT_size
      h == HeaderUnpack(Slice(data, 0, header_size))
  IN IF ~h.ok THEN h
     ELSE LET crc16_value == FromLittleEndian(Slice(data, Len(data) - 2, Len(data)))
              pbytes == Slice(data, header_size, Len(data) - 2)
              pdtype == h.header.data_type
              p == IF pdtype = DATA_TYPE_K_BROADBAND THEN BroadbandUnpack(pbytes)
                   ELSE IF pdtype = DATA_TYPE_K_SPIKETRAIN
                        THEN SpiketrainUnpack(pbytes, outcome)
                        ELSE Raise("UnknownDataType")
          IN IF ~p.ok THEN p
             ELSE IF ~Crc16Verify(Slice(data, 0, Len(data) - 2), crc16_value)
                  THEN Raise("ChecksumError")
                  ELSE [ok |-> TRUE, err |-> "",
                        header |-> h.header, payload |-> p.payload]

\* ------------------------------------------------------------------------
\* Inputs
\* ------------------------------------------------------------------------

MaxChannels == 2
MaxSamples == 2
MaxSpikes == 4
MaxValues == 3
MaxBytes == 2

\* all sequences over S of length at most n
RECURSIVE SeqsUpTo(_, _)
SeqsUpTo(S, n) ==
  IF n = 0 THEN {<<>>}
  ELSE LET shorter == SeqsUpTo(S, n - 1)
       IN shorter \cup {Append(q, x) : q \in {r \in shorter : Len(r) = n - 1}, x \in S}

\* the bit widths of the round-trip property
BitWidths == {1, 7, 8, 13, 24}

\* the least and the greatest value of a width
Extremes(is_signed, bit_width) ==
  IF is_signed THEN {-Pow2(bit_width - 1), Pow2(bit_width - 1) - 1}
  ELSE {0, Pow2(bit_width) - 1}

ChannelIds == {16777215}

\* n samples alternating between a and b
Alternating(a, b, n) == [i \in 1..n |-> IF i % 2 = 1 THEN a ELSE b]

\* sample arrays of every length up to MaxSamples made of the extremes of
\* the width, starting from either
SampleRuns(is_signed, bit_width) ==
  LET lo == IF is_signed THEN -Pow2(bit_width - 1) ELSE 0
      hi == IF is_signed THEN Pow2(bit_width - 1) - 1 ELSE Pow2(bit_width) - 1
  IN {Alternating(lo, hi, n) : n \in 0..MaxSamples}
     \cup {Alternating(hi, lo, n) : n \in 0..MaxSamples}

BroadbandPayloads(widths, rates) ==
  UNION {
    {NDTPPayloadBroadband(s, w, r, chs) :
       chs \in SeqsUpTo({ChannelData(id, d) :
                           id \in ChannelIds, d \in SampleRuns(s, w)},
                        MaxChannels)} :
    s \in BOOLEAN, w \in widths, r \in rates}

SpiketrainPayloads(counts) ==
  {NDTPPayloadSpiketrain(c) : c \in SeqsUpTo(counts, MaxSpikes)}

\* 0, 1700000000000000000 and 2^63 - 1 in base 65536
Timestamps == {<<0, 0, 0, 0>>, <<0, 13866, 40190, 6039>>, <<65535, 65535, 65535, 32767>>}

\* What the data model of the wire format admits: samples that fit the
\* declared width, 24-bit channel ids and sample rate, 16-bit sample counts,
\* spike counts of at most 4 bits, a 16-bit sequence number.
ValidPayload(p) ==
  IF p.kind = "Broadband"
  THEN /\ p.bit_width \in 1..127
       /\ p.sample_rate \in 0..16777215
       /\ \A i \in 1..Len(p.channels) :
            /\ p.channels[i].channel_id \in 0..16777215
            /\ Len(p.channels[i].channel_data) <= 65535
            /\ \A j \in 1..Len(p.channels[i].channel_data) :
                 ToBytesInRange(p.channels[i].channel_data[j], p.is_signed, p.bit_width)
  ELSE /\ p.kind = "Spiketrain"
       /\ \A i \in 1..Len(p.spike_counts) : p.spike_counts[i] \in 0..15

ValidHeader(h) == h.data_type >= 0 /\ h.seq_number \in 0..65535

\* ------------------------------------------------------------------------
\* State
\* ------------------------------------------------------------------------

VARIABLES
  op,        \* the operation performed last
  header,    \* NDTPMessage.header of the message to encode
  payload,   \* NDTPMessage.payload of the message to encode, or the payload
             \* object given to a payload codec
  packed,    \* what NDTPMessage.pack() returned
  data,      \* the datagram bytes given to NDTPMessage.unpack
  edits,     \* what happened to the datagram since pack() returned it
  unpacked,  \* what NDTPMessage.unpack(data) returned
  ppacked,   \* what payload.pack() returned
  pdata,     \* the bytes given to a payload's unpack
  punpacked, \* what the payload's unpack returned
  args,      \* the arguments of a to_bytes / to_ints call
  ret,       \* what the call returned
  follow,    \* the call made next with what the first call returned: its
             \* arguments and its result
  threads    \* per thread, the call it runs: arguments, position, locals, result

msgVars == <<header, packed, data, edits, unpacked>>
payVars == <<ppacked, pdata, punpacked>>
bitVars == <<args, ret, follow>>
vars == <<op, header, payload, packed, data, edits, unpacked,
          ppacked, pdata, punpacked, args, ret, follow, threads>>

NoResult == [ok |-> FALSE, err |-> "not called"]
NoHeader == NDTPHeader(-1, <<>>, -1)
NoArgs == [fn |-> "none"]

Threads == {1, 2}
Idle == [pc |-> "idle", call |-> NoArgs, locals |-> NoArgs, result |-> NoResult]

Init ==
  /\ op = "init"
  /\ header = NoHeader
  /\ payload = NoPayload
  /\ packed = NoResult
  /\ data = <<>>
  /\ edits = {}
  /\ unpacked = NoResult
  /\ ppacked = NoResult
  /\ pdata = <<>>
  /\ punpacked = NoResult
  /\ args = NoArgs
  /\ ret = NoResult
  /\ follow = NoArgs
  /\ threads = [t \in Threads |-> Idle]

\* ------------------------------------------------------------------------
\* Encoding and decoding whole messages
\* ------------------------------------------------------------------------

\* NDTPMessage(header, payload)
Construct(h, p) ==
  /\ op' = "new"
  /\ header' = h
  /\ payload' = p
  /\ packed' = NoResult
  /\ data' = <<>>
  /\ edits' = {}
  /\ unpacked' = NoResult
  /\ UNCHANGED <<payVars, bitVars, threads>>

RoundTripHeaders ==
  {NDTPHeader(DATA_TYPE_K_BROADBAND, <<0, 13866, 40190, 6039>>, 42),
   NDTPHeader(DATA_TYPE_K_SPIKETRAIN, <<65535, 65535, 65535, 32767>>, 65535)}

RoundTripPayloads ==
  BroadbandPayloads(BitWidths, {30000}) \cup SpiketrainPayloads({0, 3, 5})
  \cup {NDTPPayloadBroadband(FALSE, 12, 30000,
          <<ChannelData(0, <<0, 1, 2, 4095>>), ChannelData(1, <<10, 20>>)>>)}

\* one message is built per datagram
NewMessage ==
  /\ op = "init"
  /\ \E h \in RoundTripHeaders, p \in RoundTripPayloads : Construct(h, p)

\* message.pack(); the bytes go out as a datagram
Pack ==
  /\ op = "new"
  /\ LET r == MessagePack(header, payload)
     IN /\ packed' = r
        /\ data' = IF r.ok THEN r.bytes ELSE <<>>
  /\ header' = MessagePackSelf(header, payload).header
  /\ payload' = MessagePackSelf(header, payload).payload
  /\ op' = "pack"
  /\ UNCHANGED <<edits, unpacked, payVars, bitVars, threads>>

\* NDTPMessage.unpack(data) on the datagram as received
Unpack ==
  /\ op \in {"pack", "edit", "surplus"}
  /\ packed.ok
  /\ \E outcome \in OverflowOutcomes : unpacked' = MessageUnpack(data, outcome)
  /\ data' = MessageUnpackData(data)
  /\ op' = "unpack"
  /\ UNCHANGED <<header, payload, packed, edits, payVars, bitVars, threads>>

Next == NewMessage \/ Pack \/ Unpack

Spec == Init /\ [][Next]_vars

\* ------------------------------------------------------------------------
\* Datagrams damaged between pack() and unpack()
\* ------------------------------------------------------------------------

FrameHeaders ==
  {NDTPHeader(t, <<0, 13866, 40190, 6039>>, 42) :
     t \in {DATA_TYPE_K_BROADBAND, DATA_TYPE_K_SPIKETRAIN, 7}}

FramePayloads ==
  {NDTPPayloadBroadband(FALSE, 12, 30000,
     <<ChannelData(0, <<0, 4095>>), ChannelData(1, <<10>>)>>),
   NDTPPayloadBroadband(FALSE, 1, 30000, <<>>),
   NDTPPayloadSpiketrain(<<0, 1, 2, 3>>),
   NoPayload}

NewFrame ==
  /\ op = "init"
  /\ \E h \in FrameHeaders, p \in FramePayloads : Construct(h, p)

EditKinds == {e.kind : e \in edits}

Edit(kind, arg, bytes) ==
  /\ op \in {"pack", "edit"}
  /\ packed.ok
  /\ kind \notin EditKinds
  /\ "flip" \notin EditKinds
  /\ data' = bytes
  /\ edits' = edits \cup {[kind |-> kind, arg |-> arg]}
  /\ op' = "edit"
  /\ UNCHANGED <<header, payload, packed, unpacked, payVars, bitVars, threads>>

\* bit i of a buffer is bit i % 8 of byte i \div 8
FlipBitOf(bytes, i) ==
  [bytes EXCEPT ![(i \div 8) + 1] = BitXor(@, Pow2(i % 8), 8)]

\* one bit of the header+payload region of a packed message is inverted
FlipBit ==
  /\ edits = {}
  /\ \E i \in 0..((Len(data) - 2) * 8 - 1) : Edit("flip", i, FlipBitOf(data, i))

\* the version byte is overwritten
SetVersion ==
  /\ Len(data) >= 1
  /\ \E v \in {0, 2, 255} : Edit("version", v, [data EXCEPT ![1] = v])

\* the data_type field is overwritten
SetDataType ==
  /\ Len(data) >= 5
  /\ \E t \in {0, DATA_TYPE_K_BROADBAND, DATA_TYPE_K_SPIKETRAIN, 7} :
       Edit("data_type", t,
            SubSeq(data, 1, 1) \o LittleEndian(t, 4) \o SubSeq(data, 6, Len(data)))

\* the trailing CRC field no longer matches
BreakCrc ==
  /\ Len(data) >= 1
  /\ "truncate" \notin EditKinds
  /\ Edit("crc", 0, FlipBitOf(data, (Len(data) - 1) * 8))

\* only the first n bytes of the datagram arrive
Truncate ==
  \E n \in 0..(Len(data) - 1) : Edit("truncate", n, SubSeq(data, 1, n))

\* bytes are added after the payload of a packed message and the trailer is
\* the CRC of everything before it
AddSurplus ==
  /\ op = "pack"
  /\ packed.ok
  /\ \E extra \in {<<0>>, <<255, 1>>} :
       LET body == SubSeq(data, 1, Len(data) - 2) \o extra
       IN /\ data' = body \o LittleEndian(Crc16(body), 2)
          /\ edits' = {[kind |-> "surplus", arg |-> Len(extra)]}
  /\ op' = "surplus"
  /\ UNCHANGED <<header, payload, packed, unpacked, payVars, bitVars, threads>>

NextFrame ==
  NewFrame \/ Pack \/ FlipBit \/ SetVersion \/ SetDataType \/ BreakCrc
  \/ Truncate \/ AddSurplus \/ Unpack

SpecFrame == Init /\ [][NextFrame]_vars

\* ------------------------------------------------------------------------
\* The same call made twice
\* ------------------------------------------------------------------------

\* message.pack() once more on the same message object
PackAgain ==
  /\ op = "pack"
  /\ follow' = [fn |-> "pack", ret |-> MessagePack(header, payload)]
  /\ header' = MessagePackSelf(header, payload).header
  /\ payload' = MessagePackSelf(header, payload).payload
  /\ op' = "pack_again"
  /\ UNCHANGED <<packed, data, edits, unpacked, payVars, args, ret, threads>>

\* NDTPMessage.unpack(data) once more on the same buffer
UnpackAgain ==
  /\ op = "unpack"
  /\ \E outcome \in OverflowOutcomes :
       follow' = [fn |-> "unpack", ret |-> MessageUnpack(data, outcome)]
  /\ data' = MessageUnpackData(data)
  /\ op' = "unpack_again"
  /\ UNCHANGED <<header, payload, packed, edits, unpacked, payVars, args, ret, threads>>

NextPure ==
  NewFrame \/ Pack \/ PackAgain \/ SetVersion \/ SetDataType \/ BreakCrc
  \/ Truncate \/ Unpack \/ UnpackAgain

SpecPure == Init /\ [][NextPure]_vars

\* ------------------------------------------------------------------------
\* Calls running at the same time on separate threads
\* ------------------------------------------------------------------------

\* one statement group of NDTPMessage.pack (lines 537-551) on the locals of
\* one call
MessagePackStep(f) ==
  LET l == f.locals
  IN IF f.pc = "called"
     THEN LET h == HeaderPack(f.call.header)
          IN IF ~h.ok THEN [f EXCEPT !.pc = "done", !.result = h]
             ELSE [f EXCEPT !.pc = "header_bytes",
                            !.locals = [message |-> <<>>, header_bytes |-> h.bytes]]
     ELSE IF f.pc = "header_bytes"
     THEN LET p == PayloadPack(f.call.payload)
          IN IF ~p.ok THEN [f EXCEPT !.pc = "done", !.result = p]
             ELSE [f EXCEPT !.pc = "payload_bytes",
                            !.locals = [message |-> l.message,
                                        header_bytes |-> l.header_bytes,
                                        payload_bytes |-> p.bytes]]
     ELSE IF f.pc = "payload_bytes"
     THEN [f EXCEPT !.pc = "message",
                    !.locals = [message |-> (l.message \o l.header_bytes)
                                            \o l.payload_bytes]]
     ELSE IF f.pc = "message"
     THEN [f EXCEPT !.pc = "crc",
                    !.locals = [message |-> l.message, crc |-> Crc16(l.message)]]
     ELSE [f EXCEPT !.pc = "done",
                    !.result = [ok |-> TRUE, err |-> "",
                                bytes |-> l.message \o LittleEndian(l.crc, 2)]]

\* one statement group of NDTPMessage.unpack (lines 555-581) on the locals
\* of one call
MessageUnpackStep(f, outcome) ==
  LET l == f.locals
      data_ == f.call.data
      header_size == NDTPHeader_STRUCT_size
  IN IF f.pc = "called"
     THEN LET h == HeaderUnpack(Slice(data_, 0, header_size))
          IN IF ~h.ok THEN [f EXCEPT !.pc = "done", !.result = h]
             ELSE [f EXCEPT !.pc = "header", !.locals = [header |-> h.header]]
     ELSE IF f.pc = "header"
     THEN [f EXCEPT !.pc = "pbytes",
                    !.locals = [header |-> l.header,
                                crc16_value |->
                                  FromLittleEndian(Slice(data_, Len(data_) - 2, Len(data_))),
                                pbytes |-> Slice(data_, header_size, Len(data_) - 2),
                                pdtype |-> l.header.data_type]]
     ELSE IF f.pc = "pbytes"
     THEN LET p == IF l.pdtype = DATA_TYPE_K_BROADBAND THEN BroadbandUnpack(l.pbytes)
                   ELSE IF l.pdtype = DATA_TYPE_K_SPIKETRAIN
                        THEN SpiketrainUnpack(l.pbytes, outcome)
                        ELSE Raise("UnknownDataType")
          IN IF ~p.ok THEN [f EXCEPT !.pc = "done", !.result = p]
             ELSE [f EXCEPT !.pc = "payload",
                            !.locals = [header |-> l.header,
                                        crc16_value |-> l.crc16_value,
                                        payload |-> p.payload]]
     ELSE IF ~Crc16Verify(Slice(data_, 0, Len(data_) - 2), l.crc16_value)
          THEN [f EXCEPT !.pc = "done", !.result = Raise("ChecksumError")]
          ELSE [f EXCEPT !.pc = "done",
                         !.result = [ok |-> TRUE, err |-> "",
                                     header |-> l.header, payload |-> l.payload]]

\* to_bytes on the locals of one call: the buffer set-up (lines 34-58), one
\* turn of the `for py_value in values` loop (lines 81-113), or the return
\* (lines 115-120)
ToBytesStep(f) ==
  LET l == f.locals
      c == f.call
  IN IF f.pc = "called"
     THEN LET buffer0 == IF c.existing = None THEN <<>> ELSE c.existing
              buffer_length == Len(buffer0)
              bit_offset == IF c.existing = None THEN 0
                            ELSE IF buffer_length > 0
                                 THEN (buffer_length - 1) * 8 + c.writing_bit_offset
                                 ELSE 0
              total_bytes_needed == (bit_offset + Len(c.values) * c.bit_width + 7) \div 8
          IN [f EXCEPT !.pc = "loop",
                       !.locals =
                         [buffer |-> IF Len(buffer0) < total_bytes_needed
                                     THEN buffer0 \o [k \in 1..(total_bytes_needed - Len(buffer0)) |-> 0]
                                     ELSE buffer0,
                          bit_offset |-> bit_offset,
                          total_bytes_needed |-> total_bytes_needed,
                          i |-> 1]]
     ELSE IF l.i > Len(c.values)
     THEN LET final_bit_offset == l.bit_offset % 8
          IN [f EXCEPT !.pc = "done",
                       !.result =
                         [ok |-> TRUE, err |-> "",
                          buffer |-> IF final_bit_offset = 0
                                        /\ l.total_bytes_needed < Len(l.buffer)
                                     THEN Slice(l.buffer, 0, l.total_bytes_needed)
                                     ELSE l.buffer,
                          final_bit_offset |-> final_bit_offset,
                          existing |-> l.buffer]]
     ELSE LET value == c.values[l.i]
          IN IF ~ToBytesInRange(value, c.is_signed, c.bit_width)
             THEN [f EXCEPT !.pc = "done",
                            !.result = [ok |-> FALSE, err |-> "ValueOutOfRange",
                                        existing |-> l.buffer]]
             ELSE LET value_unsigned == IF c.is_signed /\ value < 0
                                        THEN Pow2(c.bit_width) + value
                                        ELSE value
                      w == ToBytesWrite(l.buffer, l.bit_offset, value_unsigned,
                                        c.bit_width, c.byteorder = "little")
                  IN [f EXCEPT !.locals = [buffer |-> w.buffer,
                                           bit_offset |-> w.bit_offset,
                                           total_bytes_needed |-> l.total_bytes_needed,
                                           i |-> l.i + 1]]

\* the locals of every call kept in one place for all threads
Locals_static(frames, t) == frames[CHOOSE u \in DOMAIN frames : \A v \in DOMAIN frames : u <= v]

\* the arguments and locals that a step of the call on thread t works on:
\* every name the functions assign is an argument or a `cdef` local of the
\* call, and the module-level names are only read
Locals(frames, t) == frames[t]

ThreadMessages == {<<h, p>> : h \in FrameHeaders, p \in FramePayloads}

ThreadDatagrams ==
  LET whole == {MessagePack(m[1], m[2]).bytes : m \in ThreadMessages}
  IN whole \cup {Slice(b, 0, Len(b) - 3) : b \in whole}

ThreadCalls ==
  {[fn |-> "pack", header |-> m[1], payload |-> m[2]] : m \in ThreadMessages}
  \cup {[fn |-> "unpack", data |-> b] : b \in ThreadDatagrams}
  \cup {[fn |-> "to_bytes", values |-> v, is_signed |-> FALSE, bit_width |-> 12,
         existing |-> e, writing_bit_offset |-> 4, byteorder |-> o] :
          v \in {<<>>, <<4095, 0, 2730>>, <<1, 4096>>},
          e \in {None, <<165>>}, o \in {"big", "little"}}

\* a thread enters a call with its own arguments
ThreadCall(t) ==
  /\ threads[t].pc = "idle"
  /\ \E c \in ThreadCalls :
       threads' = [threads EXCEPT ![t] = [Idle EXCEPT !.pc = "called", !.call = c]]
  /\ UNCHANGED <<op, payload, msgVars, payVars, bitVars>>

ThreadRuns(t, fn) ==
  /\ threads[t].pc \notin {"idle", "done"}
  /\ Locals(threads, t).call.fn = fn

ThreadPack(t) ==
  /\ ThreadRuns(t, "pack")
  /\ threads' = [threads EXCEPT ![t] = MessagePackStep(Locals(threads, t))]
  /\ UNCHANGED <<op, payload, msgVars, payVars, bitVars>>

ThreadUnpack(t) ==
  /\ ThreadRuns(t, "unpack")
  /\ \E outcome \in OverflowOutcomes :
       threads' = [threads EXCEPT ![t] = MessageUnpackStep(Locals(threads, t), outcome)]
  /\ UNCHANGED <<op, payload, msgVars, payVars, bitVars>>

ThreadToBytes(t) ==
  /\ ThreadRuns(t, "to_bytes")
  /\ threads' = [threads EXCEPT ![t] = ToBytesStep(Locals(threads, t))]
  /\ UNCHANGED <<op, payload, msgVars, payVars, bitVars>>

NextThreads ==
  \E t \in Threads :
    ThreadCall(t) \/ ThreadPack(t) \/ ThreadUnpack(t) \/ ThreadToBytes(t)

SpecThreads == Init /\ [][NextThreads]_vars

\* ------------------------------------------------------------------------
\* Payload codecs on their own
\* ------------------------------------------------------------------------

\* Broadband payloads with a field that does not fit its wire field:
\* bit_width above 127, sample_rate above 65535, channel_id above 2^24 - 1
MisfitPayloads ==
  {NDTPPayloadBroadband(FALSE, 128, 30000, <<>>),
   NDTPPayloadBroadband(TRUE, 129, 30000, <<>>),
   NDTPPayloadBroadband(FALSE, 8, 65536, <<>>),
   NDTPPayloadBroadband(FALSE, 8, 30000, <<ChannelData(16777216, <<255>>)>>)}

PayloadInputs ==
  BroadbandPayloads({4, 13}, {30000}) \cup SpiketrainPayloads({0, 3, 5, 15, 20})
  \cup MisfitPayloads

NewPayload ==
  /\ op = "init"
  /\ \E p \in PayloadInputs : payload' = p
  /\ op' = "new"
  /\ UNCHANGED <<msgVars, payVars, bitVars, threads>>

\* payload.pack()
PackPayload ==
  /\ op = "new"
  /\ LET r == PayloadPack(payload)
     IN /\ ppacked' = r
        /\ pdata' = IF r.ok THEN r.bytes ELSE <<>>
  /\ op' = "ppack"
  /\ UNCHANGED <<payload, punpacked, msgVars, bitVars, threads>>

\* the first byte of a Broadband payload declares bit_width 0
DeclareWidthZero ==
  /\ op = "ppack"
  /\ ppacked.ok
  /\ payload.kind = "Broadband"
  /\ pdata' = [pdata EXCEPT ![1] = @ % 2]
  /\ op' = "pwidth"
  /\ UNCHANGED <<payload, ppacked, punpacked, msgVars, bitVars, threads>>

\* only the first n bytes of the payload are given to unpack
TruncatePayload ==
  /\ op \in {"ppack", "pwidth"}
  /\ ppacked.ok
  /\ \E n \in 0..(Len(pdata) - 1) : pdata' = SubSeq(pdata, 1, n)
  /\ op' = "ptruncate"
  /\ UNCHANGED <<payload, ppacked, punpacked, msgVars, bitVars, threads>>

\* NDTPPayloadBroadband.unpack(pdata) / NDTPPayloadSpiketrain.unpack(pdata)
UnpackPayload ==
  /\ op \in {"ppack", "pwidth", "ptruncate"}
  /\ ppacked.ok
  /\ \E outcome \in OverflowOutcomes :
       punpacked' = IF payload.kind = "Broadband" THEN BroadbandUnpack(pdata)
                    ELSE SpiketrainUnpack(pdata, outcome)
  /\ op' = "punpack"
  /\ UNCHANGED <<payload, ppacked, pdata, msgVars, bitVars, threads>>

NextPayload ==
  NewPayload \/ PackPayload \/ DeclareWidthZero \/ TruncatePayload \/ UnpackPayload

SpecPayload == Init /\ [][NextPayload]_vars

\* ------------------------------------------------------------------------
\* to_bytes on its own
\* ------------------------------------------------------------------------

PackerWidths == {1, 4, 8, 13}

\* the extremes of a width and their outer neighbours
Around(is_signed, bit_width) ==
  Extremes(is_signed, bit_width)
  \cup {x - 1 : x \in {y \in Extremes(is_signed, bit_width) : y <= 0}}
  \cup {x + 1 : x \in {y \in Extremes(is_signed, bit_width) : y > 0}}

ChooseToBytes ==
  /\ op = "init"
  /\ \E s \in BOOLEAN, w \in PackerWidths, b \in {"big", "little"} :
       \E v \in SeqsUpTo(Around(s, w), MaxValues) :
         args' = [fn |-> "to_bytes", values |-> v, is_signed |-> s, bit_width |-> w,
                  existing |-> None, writing_bit_offset |-> 0, byteorder |-> b]
  /\ op' = "args"
  /\ UNCHANGED <<ret, follow, payload, msgVars, payVars, threads>>

\* negative values of a width: all bits set, the top bit alone, and one in
\* between
Negatives(bit_width) ==
  {-1, -Pow2(bit_width - 1), -((Pow2(bit_width - 1) \div 2) + 1)}

\* arguments of a signed to_bytes call on negative values
ChooseSigned ==
  /\ op = "init"
  /\ \E w \in PackerWidths, b \in {"big", "little"} :
       \E v \in SeqsUpTo(Negatives(w) \cup {1 % Pow2(w - 1)}, 2) :
         args' = [fn |-> "to_bytes", values |-> v, is_signed |-> TRUE, bit_width |-> w,
                  existing |-> None, writing_bit_offset |-> 0, byteorder |-> b]
  /\ op' = "args"
  /\ UNCHANGED <<ret, follow, payload, msgVars, payVars, threads>>

CallToBytes ==
  /\ op = "args"
  /\ args.fn = "to_bytes"
  /\ ret' = ToBytes(args.values, args.is_signed, args.bit_width, args.existing,
                    args.writing_bit_offset, args.byteorder)
  /\ op' = "to_bytes"
  /\ UNCHANGED <<args, follow, payload, msgVars, payVars, threads>>

\* to_ints(buffer, is_signed, bit_width, count=len(values), byteorder) on
\* the buffer a to_bytes call returned
DecodePacked ==
  /\ op = "to_bytes"
  /\ ret.ok
  /\ follow' = [fn |-> "to_ints", data |-> ret.buffer, count |-> Len(args.values),
                ret |-> ToInts(ret.buffer, args.is_signed, args.bit_width,
                               Len(args.values), 0, args.byteorder)]
  /\ op' = "decode_packed"
  /\ UNCHANGED <<args, ret, payload, msgVars, payVars, threads>>

\* to_bytes(more, is_signed, bit_width, existing=buffer,
\* writing_bit_offset=final_bit_offset, byteorder) with the buffer and the
\* offset a to_bytes call returned
ContinueToBytes ==
  /\ op = "to_bytes"
  /\ ret.ok
  /\ \E more \in SeqsUpTo(Extremes(args.is_signed, args.bit_width), MaxValues) :
       follow' = [fn |-> "to_bytes", values |-> more, existing |-> ret.buffer,
                  writing_bit_offset |-> ret.final_bit_offset,
                  ret |-> ToBytes(more, args.is_signed, args.bit_width, ret.buffer,
                                  ret.final_bit_offset, args.byteorder)]
  /\ op' = "continue"
  /\ UNCHANGED <<args, ret, payload, msgVars, payVars, threads>>

\* the continuing call of ContinueToBytes on values of which the first or
\* the second cannot be represented in bit_width bits
ContinueOutOfRange ==
  /\ op = "to_bytes"
  /\ ret.ok
  /\ \E bad \in Around(args.is_signed, args.bit_width)
                   \ Extremes(args.is_signed, args.bit_width),
        good \in SeqsUpTo(Extremes(args.is_signed, args.bit_width), 1) :
       LET more == good \o <<bad>>
       IN follow' = [fn |-> "to_bytes", values |-> more, existing |-> ret.buffer,
                     writing_bit_offset |-> ret.final_bit_offset,
                     ret |-> ToBytes(more, args.is_signed, args.bit_width, ret.buffer,
                                     ret.final_bit_offset, args.byteorder)]
  /\ op' = "continue_refused"
  /\ UNCHANGED <<args, ret, payload, msgVars, payVars, threads>>

\* to_bytes(values, False, bit_width, byteorder=byteorder) on the values of
\* a signed call, every negative one replaced by 2^bit_width + value
PackUnsigned ==
  /\ op = "to_bytes"
  /\ args.is_signed
  /\ ret.ok
  /\ LET twin == [i \in 1..Len(args.values) |->
                   IF args.values[i] < 0 THEN Pow2(args.bit_width) + args.values[i]
                   ELSE args.values[i]]
     IN follow' = [fn |-> "to_bytes", values |-> twin,
                   ret |-> ToBytes(twin, FALSE, args.bit_width, None, 0, args.byteorder)]
  /\ op' = "pack_unsigned"
  /\ UNCHANGED <<args, ret, payload, msgVars, payVars, threads>>

UnpackerWidths == {1, 3, 8, 12}

StartBits == {0, 1, 4, 7, 8, 12, 16, 17}

ChooseToInts ==
  /\ op = "init"
  /\ \E d \in SeqsUpTo({0, 165, 255}, MaxBytes), s \in BOOLEAN,
        w \in UnpackerWidths, c \in 0..MaxValues, sb \in StartBits,
        b \in {"big", "little"} :
       args' = [fn |-> "to_ints", data |-> d, is_signed |-> s, bit_width |-> w,
                count |-> c, start_bit |-> sb, byteorder |-> b]
  /\ op' = "args"
  /\ UNCHANGED <<ret, follow, payload, msgVars, payVars, threads>>

CallToInts ==
  /\ op = "args"
  /\ args.fn = "to_ints"
  /\ ret' = ToInts(args.data, args.is_signed, args.bit_width, args.count,
                   args.start_bit, args.byteorder)
  /\ op' = "to_ints"
  /\ UNCHANGED <<args, follow, payload, msgVars, payVars, threads>>

\* to_ints on the arguments of a signed call, with is_signed False
DecodeUnsigned ==
  /\ op = "to_ints"
  /\ args.is_signed
  /\ ret.ok
  /\ follow' = [fn |-> "to_ints",
                ret |-> ToInts(args.data, FALSE, args.bit_width, args.count,
                               args.start_bit, args.byteorder)]
  /\ op' = "decode_unsigned"
  /\ UNCHANGED <<args, ret, payload, msgVars, payVars, threads>>

NextBits ==
  ChooseToBytes \/ ChooseSigned \/ CallToBytes \/ DecodePacked \/ ContinueToBytes
  \/ ContinueOutOfRange \/ PackUnsigned \/ ChooseToInts \/ CallToInts \/ DecodeUnsigned

SpecBits == Init /\ [][NextBits]_vars

\* ------------------------------------------------------------------------
\* Properties of whole messages
\* ------------------------------------------------------------------------

\* the tag field of a datagram is a known payload tag
KnownTag(bytes) ==
  SubSeq(bytes, 2, 5) \in {LittleEndian(DATA_TYPE_K_BROADBAND, 4),
                           LittleEndian(DATA_TYPE_K_SPIKETRAIN, 4)}

\* C1: round trip. Every valid (header, payload) packs, and unpacking the
\* packed bytes returns a message with an equal header and an equal payload.
C1_RoundTrip ==
  /\ (op = "pack" /\ ValidHeader(header) /\ ValidPayload(payload)) => packed.ok
  /\ (op = "unpack" /\ edits = {} /\ ValidHeader(header) /\ ValidPayload(payload))
       => /\ unpacked.ok
          /\ unpacked.header = header
          /\ unpacked.payload = payload

\* a valid Spiketrain message that pack() refuses
C1_PackRefused ==
  /\ op = "pack"
  /\ ValidHeader(header) /\ ValidPayload(payload)
  /\ payload.kind = "Spiketrain"
  /\ ~packed.ok /\ packed.err = "ValueOutOfRange"

\* C9: header layout. NDTPHeader.pack gives 12 bytes: version 1, the
\* data_type byte, the timestamp in 8 big-endian bytes, seq_number in 2
\* big-endian bytes; the payload starts at offset 12 of the packed message.
C9_HeaderLayout ==
  (op = "pack" /\ packed.ok) =>
    LET hb == HeaderPack(header).bytes
        t == header.timestamp
    IN /\ Len(hb) = 12
       /\ hb[1] = 1
       /\ hb[2] = header.data_type
       /\ SubSeq(hb, 3, 10) = BigEndian(t[4], 2) \o BigEndian(t[3], 2)
                              \o BigEndian(t[2], 2) \o BigEndian(t[1], 2)
       /\ SubSeq(hb, 11, 12) = BigEndian(header.seq_number, 2)
       /\ SubSeq(data, 13, Len(data) - 2) = PayloadPack(payload).bytes

\* a packed message whose payload starts at offset 15, after a 15-byte
\* little-endian header
C9_FifteenBytes ==
  /\ op = "pack" /\ packed.ok
  /\ Len(HeaderPack(header).bytes) = 15
  /\ SubSeq(data, 2, 5) = LittleEndian(header.data_type, 4)
  /\ SubSeq(data, 16, Len(data) - 2) = PayloadPack(payload).bytes
  /\ Len(PayloadPack(payload).bytes) > 0

\* C10: CRC trailer. The last two bytes of every packed message are the
\* CRC-16 of all preceding bytes, high byte first.
C10_CrcTrailerBigEndian ==
  (op = "pack" /\ packed.ok) =>
    SubSeq(data, Len(data) - 1, Len(data))
      = BigEndian(Crc16(SubSeq(data, 1, Len(data) - 2)), 2)

\* a packed message whose trailer is the CRC low byte first, and not high
\* byte first
C10_TrailerLittleEndian ==
  /\ op = "pack" /\ packed.ok
  /\ SubSeq(data, Len(data) - 1, Len(data))
       = LittleEndian(Crc16(SubSeq(data, 1, Len(data) - 2)), 2)
  /\ data[Len(data) - 1] # data[Len(data)]

\* ------------------------------------------------------------------------
\* Properties of damaged datagrams
\* ------------------------------------------------------------------------

\* the datagram is a packed message with exactly one bit inverted
OneBitFlipped == op = "unpack" /\ EditKinds = {"flip"}

\* the position of the inverted bit
FlippedBit == (CHOOSE e \in edits : e.kind = "flip").arg

\* bit 7 of the last byte of the data_type field and of the timestamp field
SignBits == {4 * 8 + 7, 12 * 8 + 7}

C3_VersionGate ==
  (op = "unpack" /\ Len(data) >= NDTPHeader_STRUCT_size /\ data[1] # NDTP_VERSION)
    => (~unpacked.ok /\ unpacked.err = "VersionMismatch")

\* version 2 with an unknown tag, a cut payload and no valid CRC
C3_VersionFirst ==
  /\ op = "unpack"
  /\ {"version", "data_type", "truncate"} \subseteq EditKinds
  /\ Len(data) >= NDTPHeader_STRUCT_size
  /\ data[1] = 2
  /\ ~KnownTag(data)
  /\ unpacked.err = "VersionMismatch"

\* C4: truncation safety. Decoding a buffer shorter than 12 bytes, the
\* empty one included, fails with the insufficient-data error, and no index
\* outside the buffer is read.
C4_ShortFrame ==
  (op = "unpack" /\ Len(data) < 12) =>
    /\ ~unpacked.ok
    /\ unpacked.err = "InsufficientData"
    /\ HeaderUnpackReads(Slice(data, 0, NDTPHeader_STRUCT_size))
         \subseteq 0..(Len(data) - 1)

\* an 11-byte prefix of a packed message is refused
C4_ElevenBytes ==
  /\ op = "unpack"
  /\ Len(data) = 11
  /\ unpacked.err = "InsufficientData"

\* C8: unknown tag. Every datagram with a whole header, version byte 1 and
\* a tag that is neither the Broadband nor the Spiketrain tag fails with the
\* unknown-data-type error.
C8_UnknownTag ==
  (op = "unpack" /\ Len(data) >= NDTPHeader_STRUCT_size
   /\ data[1] = NDTP_VERSION /\ ~KnownTag(data))
    => (~unpacked.ok /\ unpacked.err = "UnknownDataType")

\* tag 7 with the top bit of the timestamp field set fails in the header
\* conversion, before the tag is looked at
C8_OverflowBeforeTag ==
  /\ op = "unpack"
  /\ header.data_type = 7
  /\ OneBitFlipped /\ FlippedBit = 12 * 8 + 7
  /\ SubSeq(data, 2, 5) = LittleEndian(7, 4)
  /\ data[1] = NDTP_VERSION
  /\ unpacked.err = "OverflowError"

\* ------------------------------------------------------------------------
\* Properties of the payload codecs
\* ------------------------------------------------------------------------

\* The offset at which the channels a Broadband buffer declares end, from
\* offset pos with `remaining` channels to go; one past the buffer when a
\* channel_id or sample-count field is itself cut off.
RECURSIVE DeclaredEnd(_, _, _, _)
DeclaredEnd(bytes, pos, remaining, bit_width) ==
  IF remaining = 0 THEN pos
  ELSE IF pos + 5 > Len(bytes) THEN Len(bytes) + 1
  ELSE LET num_samples == bytes[pos + 4] * 256 + bytes[pos + 5]
       IN DeclaredEnd(bytes, pos + 5 + (num_samples * bit_width + 7) \div 8,
                      remaining - 1, bit_width)

\* a Broadband buffer with its 6 fixed bytes that declares more than it holds
DeclaresTooMuch(bytes) ==
  /\ Len(bytes) >= 6
  /\ DeclaredEnd(bytes, 6, (bytes[2] * 256 + bytes[3]) * 256 + bytes[4],
                 bytes[1] \div 2) > Len(bytes)

C7_SaturatingClamp ==
  /\ (op = "ppack" /\ payload.kind = "Spiketrain") => ppacked.ok
  /\ (op = "punpack" /\ payload.kind = "Spiketrain" /\ pdata = ppacked.bytes)
       => /\ punpacked.ok
          /\ punpacked.payload.spike_counts
               = [i \in 1..Len(payload.spike_counts) |->
                    Min(payload.spike_counts[i], 15)]

\* packing the counts [0, 5, 15, 20] is refused
C7_PackRefused ==
  /\ op = "ppack"
  /\ payload = NDTPPayloadSpiketrain(<<0, 5, 15, 20>>)
  /\ ~ppacked.ok /\ ppacked.err = "ValueOutOfRange"

\* ------------------------------------------------------------------------
\* Properties of to_bytes
\* ------------------------------------------------------------------------

\* C6: range rejection. to_bytes fails with the value-out-of-range error
\* exactly when a value lies outside 0 .. 2^w - 1 (unsigned) or
\* -2^(w-1) .. 2^(w-1) - 1 (signed).
C6_RangeRejection ==
  (op = "to_bytes" /\ args.byteorder \in {"big", "little"}) =>
    LET w == args.bit_width
        outside(v) == IF args.is_signed
                      THEN v < -(2 ^ (w - 1)) \/ v > 2 ^ (w - 1) - 1
                      ELSE v < 0 \/ v > 2 ^ w - 1
    IN (~ret.ok /\ ret.err = "ValueOutOfRange")
         <=> \E i \in 1..Len(args.values) : outside(args.values[i])

\* at width 4, 15 and -8 are packed and 16 and -9 are refused
C6_WidthFour ==
  /\ op = "to_bytes"
  /\ args.bit_width = 4
  /\ \/ (~args.is_signed /\ args.values = <<15>> /\ ret.ok)
     \/ (~args.is_signed /\ args.values = <<16>> /\ ret.err = "ValueOutOfRange")
     \/ (args.is_signed /\ args.values = <<-8>> /\ ret.ok)
     \/ (args.is_signed /\ args.values = <<-9>> /\ ret.err = "ValueOutOfRange")

\* ------------------------------------------------------------------------
\* Payload layouts
\* ------------------------------------------------------------------------

\* C11: Broadband fixed header. A packed Broadband payload starts with 7
\* bytes: (bit_width << 1) | is_signed, the channel count in 3 big-endian
\* bytes, sample_rate in 3 big-endian bytes; unpack refuses every input
\* shorter than 7 bytes with the insufficient-data error.
C11_SevenByteHeader ==
  /\ (op = "ppack" /\ payload.kind = "Broadband" /\ ppacked.ok)
       => /\ Len(ppacked.bytes) >= 7
          /\ SubSeq(ppacked.bytes, 1, 7)
               = <<payload.bit_width * 2 + (IF payload.is_signed THEN 1 ELSE 0)>>
                 \o BigEndian(Len(payload.channels), 3)
                 \o BigEndian(payload.sample_rate, 3)
  /\ (op = "punpack" /\ payload.kind = "Broadband" /\ Len(pdata) < 7)
       => (~punpacked.ok /\ punpacked.err = "InsufficientData")

\* a payload without channels packs to 6 bytes, sample_rate in the last 2,
\* and those 6 bytes are decoded
C11_SixBytesAccepted ==
  /\ op = "punpack"
  /\ payload.kind = "Broadband"
  /\ pdata = ppacked.bytes
  /\ Len(pdata) = 6
  /\ SubSeq(pdata, 5, 6) = BigEndian(payload.sample_rate, 2)
  /\ punpacked.ok

\* C12: Spiketrain layout. A packed Spiketrain payload of n counts is 4
\* bytes of count, 1 byte bin_size_ms and the counts at 4 bits, that is
\* 5 + ceil(n * 4 / 8) bytes; unpack refuses every input shorter than 5
\* bytes, and every input whose count needs more bytes than follow the
\* 5-byte prefix, with the insufficient-data error.
C12_FiveBytePrefix ==
  /\ (op = "ppack" /\ payload.kind = "Spiketrain" /\ ppacked.ok)
       => Len(ppacked.bytes) = 5 + (Len(payload.spike_counts) * 4 + 7) \div 8
  /\ (op = "punpack" /\ payload.kind = "Spiketrain" /\ Len(pdata) < 5)
       => (~punpacked.ok /\ punpacked.err = "InsufficientData")
  /\ (op = "punpack" /\ payload.kind = "Spiketrain" /\ Len(pdata) >= 5
      /\ pdata[4] < 128
      /\ (FromLittleEndian(SubSeq(pdata, 1, 4)) * 4 + 7) \div 8 > Len(pdata) - 5)
       => (~punpacked.ok /\ punpacked.err = "InsufficientData")

\* four counts pack to the 4 count bytes and one byte of 2-bit counts, with
\* no bin_size_ms byte, and the 5 bytes decode to the four counts
C12_TwoBitCounts ==
  /\ op = "punpack"
  /\ payload.kind = "Spiketrain"
  /\ Len(payload.spike_counts) = 4
  /\ pdata = ppacked.bytes
  /\ Len(pdata) = 4 + 1
  /\ punpacked.ok
  /\ punpacked.payload = payload

\* ------------------------------------------------------------------------
\* Properties of to_bytes and to_ints together
\* ------------------------------------------------------------------------

\* C13: bit-level inverse. For 'big' and for 'little', decoding the buffer
\* that to_bytes returned, with the same signedness, width and byteorder and
\* count = len(values), returns the values that were packed.
C13_BitLevelInverse ==
  op = "decode_packed" => (follow.ret.ok /\ follow.ret.values = args.values)

\* a signed 13-bit value packed and decoded with byteorder 'little' comes
\* back as another value
C13_LittleNotInverse ==
  /\ op = "decode_packed"
  /\ args.byteorder = "little"
  /\ args.bit_width = 13
  /\ Len(args.values) = 1
  /\ follow.ret.ok
  /\ follow.ret.values # args.values

\* C14: contiguous continuation. Packing A and then packing B into the
\* returned buffer at the returned offset gives the bytes and the final
\* offset of packing A followed by B in one call, also when A ended on a
\* byte boundary.
C14_Continuation ==
  op = "continue" =>
    LET whole == ToBytes(args.values \o follow.values, args.is_signed,
                         args.bit_width, None, 0, args.byteorder)
    IN /\ follow.ret.ok
       /\ follow.ret.buffer = whole.buffer
       /\ follow.ret.final_bit_offset = whole.final_bit_offset

\* after A ended on a byte boundary, B was written over A's last byte: the
\* buffer did not grow although B holds at least 8 bits
C14_MergedIntoLastByte ==
  /\ op = "continue"
  /\ ret.final_bit_offset = 0
  /\ Len(ret.buffer) > 0
  /\ Len(follow.values) * args.bit_width >= 8
  /\ follow.ret.ok
  /\ Len(follow.ret.buffer) = Len(ret.buffer)

\* C15: counted decode is all or error. With count > 0, to_ints fails with
\* the insufficient-data error when fewer than count * bit_width bits are
\* available from start_bit on, and otherwise returns exactly count values.
C15_CountedAllOrError ==
  (op = "to_ints" /\ args.count > 0) =>
    LET bits == Len(args.data) * 8 - args.start_bit
    IN IF bits < args.count * args.bit_width
       THEN ~ret.ok /\ ret.err = "InsufficientData"
       ELSE ret.ok /\ Len(ret.values) = args.count

\* a counted decode that succeeds with fewer values than count
C15_FewerThanCount ==
  /\ op = "to_ints"
  /\ args.count > 0
  /\ ret.ok
  /\ Len(ret.values) < args.count

RECURSIVE WireChannels(_, _, _, _)
WireChannels(bytes, pos, remaining, bit_width) ==
  IF remaining = 0 \/ pos + 5 > Len(bytes) THEN <<>>
  ELSE LET id == (bytes[pos + 1] * 256 + bytes[pos + 2]) * 256 + bytes[pos + 3]
           n == bytes[pos + 4] * 256 + bytes[pos + 5]
       IN <<[channel_id |-> id, num_samples |-> n]>>
          \o WireChannels(bytes, pos + 5 + (n * bit_width + 7) \div 8,
                          remaining - 1, bit_width)

\* C20: no silent substitution. Whenever NDTPPayloadBroadband.pack returns
\* bytes, the bit_width, is_signed, channel count, sample_rate, channel ids
\* and sample counts on the wire are those of the payload; a value that does
\* not fit its field makes pack fail.
C20_NoSubstitution ==
  (op = "ppack" /\ payload.kind = "Broadband" /\ ppacked.ok) =>
    LET b == ppacked.bytes
    IN /\ b[1] \div 2 = payload.bit_width
       /\ (b[1] % 2 = 1) = payload.is_signed
       /\ (b[2] * 256 + b[3]) * 256 + b[4] = Len(payload.channels)
       /\ b[5] * 256 + b[6] = payload.sample_rate
       /\ WireChannels(b, 6, Len(payload.channels), payload.bit_width)
            = [i \in 1..Len(payload.channels) |->
                 [channel_id |-> payload.channels[i].channel_id,
                  num_samples |-> Len(payload.channels[i].channel_data)]]

\* a payload with bit_width 128 packs, and the wire says bit_width 0
C20_WidthMasked ==
  /\ op = "ppack"
  /\ payload.kind = "Broadband"
  /\ payload.bit_width = 128
  /\ ppacked.ok
  /\ ppacked.bytes[1] \div 2 = 0

\* ------------------------------------------------------------------------
\* Tag and payload kind
\* ------------------------------------------------------------------------

\* the tag that names a payload's kind
TagOf(p) ==
  IF p.kind = "Broadband" THEN DATA_TYPE_K_BROADBAND ELSE DATA_TYPE_K_SPIKETRAIN

\* C19: tag/payload agreement. A message returned by unpack has a Broadband
\* payload iff its header carries the Broadband tag and a Spiketrain payload
\* iff it carries the Spiketrain tag; pack accepts a header whose tag
\* disagrees with the payload kind.
C19_TagAgreement ==
  /\ (op = "unpack" /\ unpacked.ok)
       => /\ unpacked.payload.kind = "Broadband"
               <=> unpacked.header.data_type = DATA_TYPE_K_BROADBAND
          /\ unpacked.payload.kind = "Spiketrain"
               <=> unpacked.header.data_type = DATA_TYPE_K_SPIKETRAIN
  /\ (op = "pack" /\ header.data_type # TagOf(payload)) => packed.ok

\* a Broadband payload packed under the Spiketrain tag comes back as a
\* Spiketrain payload
C19_DecodedByTag ==
  /\ op = "unpack"
  /\ edits = {}
  /\ payload.kind = "Broadband"
  /\ header.data_type = DATA_TYPE_K_SPIKETRAIN
  /\ unpacked.ok
  /\ unpacked.payload.kind = "Spiketrain"

\* ------------------------------------------------------------------------
\* Purity
\* ------------------------------------------------------------------------

Alone(c) ==
  IF c.fn = "pack" THEN {MessagePack(c.header, c.payload)}
  ELSE IF c.fn = "unpack" THEN {MessageUnpack(c.data, o) : o \in OverflowOutcomes}
  ELSE {ToBytes(c.values, c.is_signed, c.bit_width, c.existing,
                c.writing_bit_offset, c.byteorder)}

PayloadDecode(bytes, outcome) ==
  LET pbytes == Slice(bytes, NDTPHeader_STRUCT_size, Len(bytes) - 2)
      tag == SubSeq(bytes, 2, 5)
  IN IF tag = LittleEndian(DATA_TYPE_K_BROADBAND, 4) THEN BroadbandUnpack(pbytes)
     ELSE IF tag = LittleEndian(DATA_TYPE_K_SPIKETRAIN, 4)
          THEN SpiketrainUnpack(pbytes, outcome)
          ELSE Raise("UnknownDataType")

\* the trailer of the datagram is not the CRC of the bytes before it
CrcWrong(bytes) ==
  FromLittleEndian(Slice(bytes, Len(bytes) - 2, Len(bytes)))
    # Crc16(Slice(bytes, 0, Len(bytes) - 2))

\* C21: decode before verify. A datagram with a whole header and a valid
\* version byte whose payload does not decode (or whose tag is unknown) and
\* whose trailer is wrong fails with the payload decoder's error or the
\* unknown-data-type error, never with the checksum error; the checksum
\* error is reported only for a payload that decoded.
C21_DecodeBeforeVerify ==
  (op = "unpack" /\ Len(data) >= NDTPHeader_STRUCT_size /\ data[1] = NDTP_VERSION) =>
    /\ (CrcWrong(data) /\ \A o \in OverflowOutcomes : ~PayloadDecode(data, o).ok)
         => /\ ~unpacked.ok
            /\ unpacked.err # "ChecksumError"
            /\ unpacked.err \in {PayloadDecode(data, o).err : o \in OverflowOutcomes}
    /\ (~unpacked.ok /\ unpacked.err = "ChecksumError")
         => \E o \in OverflowOutcomes : PayloadDecode(data, o).ok

\* a Broadband-tagged datagram whose payload is too short and whose trailer
\* is wrong, refused by the header conversion before the payload is looked at
C21_OverflowBeforeDecode ==
  /\ op = "unpack"
  /\ OneBitFlipped /\ FlippedBit = 12 * 8 + 7
  /\ data[1] = NDTP_VERSION
  /\ SubSeq(data, 2, 5) = LittleEndian(DATA_TYPE_K_BROADBAND, 4)
  /\ CrcWrong(data)
  /\ ~PayloadDecode(data, "wrapped").ok
  /\ PayloadDecode(data, "wrapped").err = "InsufficientData"
  /\ unpacked.err = "OverflowError"

\* ------------------------------------------------------------------------
\* Layout of the channels of a Broadband payload
\* ------------------------------------------------------------------------

\* the bits of the channel records: 3 + 2 bytes of channel_id and sample
\* count and the samples at bit_width bits each
RECURSIVE ChannelBits(_, _)
ChannelBits(channels, bit_width) ==
  IF channels = <<>> THEN 0
  ELSE 40 + Len(Head(channels).channel_data) * bit_width
       + ChannelBits(Tail(channels), bit_width)

\* C22: Broadband sample packing across channels. The bit cursor runs on
\* from one channel to the next: no padding bits are inserted after a
\* channel whose samples do not end on a byte boundary, so the channel
\* records take the bits of their fields and samples rounded up once, at the
\* end of the payload.
C22_ContinuousCursor ==
  (op = "ppack" /\ ppacked.ok /\ payload.kind = "Broadband"
   /\ payload.bit_width \in 1..127) =>
    LET fixed == Len(BroadbandPack([payload EXCEPT !.channels = <<>>]).bytes)
    IN Len(pdata) - fixed = (ChannelBits(payload.channels, payload.bit_width) + 7) \div 8

\* two channels of one 4-bit sample each: the first channel's sample is
\* followed by four zero bits and the second channel starts on the next byte
C22_PaddedBetweenChannels ==
  /\ op = "ppack" /\ ppacked.ok /\ payload.kind = "Broadband"
  /\ payload.bit_width = 4 /\ ~payload.is_signed
  /\ Len(payload.channels) = 2
  /\ payload.channels[1].channel_data = <<15>>
  /\ payload.channels[2].channel_data = <<15>>
  /\ Len(pdata) = 6 + 6 + 6
  /\ pdata[12] = 240
  /\ SubSeq(pdata, 13, 15) = BigEndian(payload.channels[2].channel_id, 3)

\* ------------------------------------------------------------------------
\* Start offset and end position of to_ints
\* ------------------------------------------------------------------------

\* C23: start offset and end position. to_ints skips start_bit div 8 whole
\* bytes and begins at bit start_bit mod 8 of the next one, so value k is
\* made of the bit_width bits of the input from bit position
\* start_bit + (k - 1) * bit_width on; with a count given, the returned
\* end_bit is the position in the input just after the last value,
\* start_bit + count * bit_width.
C23_StartAndEnd ==
  (op = "to_ints" /\ ret.ok) =>
    /\ ret.data = SubSeq(args.data, (args.start_bit \div 8) + 1, Len(args.data))
    /\ \A k \in 1..Len(ret.values) :
         ret.values[k] = ToIntsValue(ToIntsBits(args.data,
                                                args.start_bit + (k - 1) * args.bit_width,
                                                args.bit_width, args.byteorder),
                                     args.is_signed, args.bit_width)
    /\ args.count > 0 => ret.end_bit = args.start_bit + args.count * args.bit_width

\* one 8-bit value decoded from the second byte: the returned end_bit is 8,
\* the position in the returned remainder, and not 16
C23_EndBitRelative ==
  /\ op = "to_ints" /\ ret.ok
  /\ args.data = <<165, 255>> /\ args.bit_width = 8 /\ ~args.is_signed
  /\ args.count = 1 /\ args.start_bit = 8
  /\ ret.values = <<255>>
  /\ ret.data = <<255>>
  /\ ret.end_bit = 8

\* ------------------------------------------------------------------------
\* Two's complement
\* ------------------------------------------------------------------------

C25_SizeAndPadding ==
  (op = "to_bytes" /\ ret.ok /\ args.existing = None) =>
    LET bits == Len(args.values) * args.bit_width
        last == ret.buffer[Len(ret.buffer)]
        offset == ret.final_bit_offset
    IN /\ Len(ret.buffer) = (bits + 7) \div 8
       /\ offset = bits % 8
       /\ offset \in 0..7
       /\ offset > 0 =>
            IF args.byteorder = "big" THEN last % Pow2(8 - offset) = 0
            ELSE last \div Pow2(offset) = 0

\* one 13-bit value of all ones: two bytes, offset 5, three zero bits at the
\* low end of the second byte
C25_ThirteenBits ==
  /\ op = "to_bytes" /\ ret.ok /\ args.existing = None
  /\ args.values = <<8191>> /\ args.bit_width = 13 /\ ~args.is_signed
  /\ args.byteorder = "big"
  /\ ret.buffer = <<255, 248>>
  /\ ret.final_bit_offset = 5

\* ------------------------------------------------------------------------
\* The caller's buffer after a refused to_bytes call
\* ------------------------------------------------------------------------

\* C26: state unchanged on error. When to_bytes is given an `existing`
\* buffer and raises because a value, at whatever index, is out of range,
\* the `existing` buffer has the length and the content it had before the
\* call.
C26_ExistingUntouched ==
  (op = "continue_refused" /\ ~follow.ret.ok /\ follow.ret.err = "ValueOutOfRange") =>
    follow.ret.existing = follow.existing

\* a buffer of one byte holding four bits, continued with an in-range value
\* and one that is out of range: the call raises and leaves the buffer one
\* byte longer, with the in-range value written
C26_ExistingGrown ==
  /\ op = "continue_refused"
  /\ ~follow.ret.ok /\ follow.ret.err = "ValueOutOfRange"
  /\ args.bit_width = 4 /\ ~args.is_signed /\ args.byteorder = "big"
  /\ follow.existing = <<240>> /\ follow.writing_bit_offset = 4
  /\ follow.values = <<15, 16>>
  /\ follow.ret.existing = <<255, 0>>

\* ------------------------------------------------------------------------
\* Single-bit damage
\* ------------------------------------------------------------------------

\* C27: no corrupted frame is accepted. For every packed message and every
\* single bit inverted before the trailing CRC field, unpack raises and
\* returns no message; the CRC of the damaged bytes differs from the CRC of
\* the bytes as packed, so a flip that leaves the header and the payload
\* decodable is caught by the CRC comparison.
C27_NoCorruptedAccepted ==
  OneBitFlipped =>
    /\ ~unpacked.ok
    /\ Len(data) = Len(packed.bytes)
    /\ Crc16(SubSeq(data, 1, Len(data) - 2))
         # Crc16(SubSeq(packed.bytes, 1, Len(packed.bytes) - 2))
    /\ (HeaderUnpack(Slice(data, 0, NDTPHeader_STRUCT_size)).ok
        /\ \A o \in OverflowOutcomes : PayloadDecode(data, o).ok)
         => unpacked.err = "ChecksumError"

\* an inverted bit of the seq_number field: the header and the payload still
\* decode, and the CRC comparison refuses the datagram
C27_SeqNumberFlipCaught ==
  /\ OneBitFlipped
  /\ FlippedBit \div 8 = 13
  /\ HeaderUnpack(Slice(data, 0, NDTPHeader_STRUCT_size)).ok
  /\ HeaderUnpack(Slice(data, 0, NDTPHeader_STRUCT_size)).header.seq_number # header.seq_number
  /\ PayloadDecode(data, "wrapped").ok
  /\ ~unpacked.ok /\ unpacked.err = "ChecksumError"

\* ------------------------------------------------------------------------
\* Frames too short to hold a payload
\* ------------------------------------------------------------------------

\* the fewest bytes the decoder named by the tag field accepts: 6 for
\* Broadband, 4 for Spiketrain
PayloadPrefix(bytes) ==
  IF Len(bytes) >= 5 /\ SubSeq(bytes, 2, 5) = LittleEndian(DATA_TYPE_K_SPIKETRAIN, 4)
  THEN 4 ELSE 6

\* C28: minimum frame. unpack returns no message for an input of fewer
\* bytes than the header, the smallest payload prefix and the 2 CRC bytes
\* together; in particular it raises for inputs of exactly the header size
\* and of one byte more, where the CRC slice overlaps the header and the
\* payload slice is empty.
C28_MinimumFrame ==
  op = "unpack" =>
    /\ Len(data) < NDTPHeader_STRUCT_size + PayloadPrefix(data) + 2 => ~unpacked.ok
    /\ Len(data) \in {NDTPHeader_STRUCT_size, NDTPHeader_STRUCT_size + 1}
         => /\ ~unpacked.ok
            /\ Slice(data, NDTPHeader_STRUCT_size, Len(data) - 2) = <<>>

\* a Spiketrain-tagged frame of a header and the CRC of that header: the
\* trailer is right, the payload slice is empty and the decoder refuses it
C28_HeaderAndTrailer ==
  /\ op = "unpack"
  /\ Len(data) = NDTPHeader_STRUCT_size + 2
  /\ SubSeq(data, 2, 5) = LittleEndian(DATA_TYPE_K_SPIKETRAIN, 4)
  /\ ~CrcWrong(data)
  /\ ~unpacked.ok /\ unpacked.err = "InsufficientData"

\* ------------------------------------------------------------------------
\* Messages without a payload
\* ------------------------------------------------------------------------

\* C30: payload-less message. pack on a message whose payload is None
\* succeeds and gives the header bytes followed by the CRC of the header;
\* unpack of that output raises, with the payload-too-short error under the
\* Broadband or the Spiketrain tag and with the unknown-data-type error
\* under any other.
C30_PayloadLess ==
  /\ (op = "pack" /\ payload = NoPayload) =>
       /\ packed.ok
       /\ packed.bytes = HeaderPack(header).bytes
                         \o LittleEndian(Crc16(HeaderPack(header).bytes), 2)
  /\ (op = "unpack" /\ edits = {} /\ payload = NoPayload) =>
       /\ ~unpacked.ok
       /\ unpacked.err = IF header.data_type \in {DATA_TYPE_K_BROADBAND,
                                                   DATA_TYPE_K_SPIKETRAIN}
                         THEN "InsufficientData"
                         ELSE "UnknownDataType"

\* a Broadband-tagged message without payload, packed to 17 bytes and
\* refused when unpacked
C30_EncodedNotDecoded ==
  /\ op = "unpack" /\ edits = {} /\ payload = NoPayload
  /\ header.data_type = DATA_TYPE_K_BROADBAND
  /\ packed.ok /\ data = packed.bytes
  /\ Len(data) = NDTPHeader_STRUCT_size + 2
  /\ ~unpacked.ok /\ unpacked.err = "InsufficientData"

\* ------------------------------------------------------------------------
\* Bytes after the declared payload
\* ------------------------------------------------------------------------

\* C29: surplus payload bytes are ignored. When bytes follow the last
\* declared channel of a Broadband payload, or the last declared count of a
\* Spiketrain payload, the payload decoder raises nothing and returns the
\* payload it returns without them; a frame carrying them under a CRC
\* computed over them is accepted by unpack, so that two different byte
\* strings decode to equal messages.
C29_SurplusIgnored ==
  (op = "unpack" /\ EditKinds = {"surplus"}) =>
    \A o \in OverflowOutcomes :
      LET intact == MessageUnpack(packed.bytes, o)
      IN intact.ok =>
           /\ PayloadDecode(data, o).ok
           /\ PayloadDecode(data, o).payload = PayloadDecode(packed.bytes, o).payload
           /\ unpacked.ok
           /\ unpacked.header = intact.header
           /\ unpacked.payload = intact.payload
           /\ data # packed.bytes

\* a Broadband message of two channels with two more bytes after the second
\* channel decodes to the message that was packed
C29_LongerFrameAccepted ==
  /\ op = "unpack" /\ EditKinds = {"surplus"}
  /\ payload.kind = "Broadband" /\ Len(payload.channels) = 2
  /\ Len(data) = Len(packed.bytes) + 2
  /\ unpacked.ok
  /\ unpacked.header = header
  /\ unpacked.payload = payload

=============================================================================
